---------------------------- MODULE Spec2Model ----------------------------
(***************************************************************************)
(* gohash: From(input, hasher) walks an arbitrary Go value with reflection *)
(* (walkObject), writes a type-tagged byte stream into the hash sink and   *)
(* returns the sink's Sum.  The model is the walkObject variant of         *)
(* src/gohash.go (lines 1-338).                                            *)
(*                                                                         *)
(* A Go value is a record: k is its reflect.Kind, t its reflect.Type, and  *)
(* v / s / addr / elems / fields its payload.  Memory that pointers,       *)
(* slices and maps refer to is the function Heap (the values are read-only *)
(* during hashing).  The sink accumulates the bytes written to it, as the  *)
(* test's testHasher does, so the digest is the byte stream itself.        *)
(***************************************************************************)
EXTENDS Integers, Sequences, FiniteSets, TLC

(***************************************************************************)
(* Bytes and strings.  A Go string is the sequence of its bytes.           *)
(***************************************************************************)
Code ==
  "a" :> 97 @@ "b" :> 98 @@ "c" :> 99 @@ "d" :> 100 @@ "e" :> 101 @@
  "f" :> 102 @@ "g" :> 103 @@ "h" :> 104 @@ "i" :> 105 @@ "k" :> 107 @@
  "l" :> 108 @@ "m" :> 109 @@ "n" :> 110 @@ "o" :> 111 @@ "p" :> 112 @@
  "r" :> 114 @@ "s" :> 115 @@ "t" :> 116 @@ "u" :> 117 @@ "v" :> 118 @@
  "w" :> 119 @@ "x" :> 120 @@ "y" :> 121 @@ "C" :> 67 @@ "I" :> 73 @@
  "K" :> 75 @@ "M" :> 77 @@ "N" :> 78 @@ "P" :> 80 @@ "T" :> 84 @@
  "*" :> 42 @@ "[" :> 91 @@ "]" :> 93 @@ "{" :> 123 @@ "}" :> 125 @@
  "(" :> 40 @@ ")" :> 41 @@ "." :> 46 @@ "/" :> 47 @@ " " :> 32 @@
  "<" :> 60 @@ ">" :> 62 @@ "0" :> 48 @@ "1" :> 49 @@ "2" :> 50 @@
  "4" :> 52 @@ "6" :> 54 @@ "8" :> 56

\* The bytes of a string given as its characters.
Bytes(chars) == [i \in DOMAIN chars |-> Code[chars[i]]]

RECURSIVE Repeat(_, _)
Repeat(b, n) == IF n <= 0 THEN <<>> ELSE <<b>> \o Repeat(b, n - 1)

\* Go's < on strings: bytewise lexicographic.
RECURSIVE LessBytes(_, _)
LessBytes(a, b) ==
  IF b = <<>> THEN FALSE
  ELSE IF a = <<>> THEN TRUE
  ELSE IF Head(a) # Head(b) THEN Head(a) < Head(b)
  ELSE LessBytes(Tail(a), Tail(b))

\* strconv.Itoa: the decimal digits of n.
RECURSIVE Digits(_)
Digits(n) == IF n < 10 THEN <<48 + n>> ELSE Digits(n \div 10) \o <<48 + (n % 10)>>

Itoa(n) == IF n < 0 THEN <<45>> \o Digits(0 - n) ELSE Digits(n)

(***************************************************************************)
(* reflect.Kind: the numeric value of each kind is the tag byte.           *)
(***************************************************************************)
KindByte ==
  [invalid |-> 0, bool |-> 1, int |-> 2, int8 |-> 3, int16 |-> 4, int32 |-> 5,
   int64 |-> 6, uint |-> 7, uint8 |-> 8, uint16 |-> 9, uint32 |-> 10,
   uint64 |-> 11, uintptr |-> 12, float32 |-> 13, float64 |-> 14,
   complex64 |-> 15, complex128 |-> 16, array |-> 17, chan |-> 18,
   func |-> 19, interface |-> 20, map |-> 21, ptr |-> 22, slice |-> 23,
   string |-> 24, struct |-> 25, unsafeptr |-> 26]

SignedKinds == {"int", "int8", "int16", "int32", "int64"}
UnsignedKinds == {"uint", "uint8", "uint16", "uint32", "uint64"}
FloatKinds == {"float32", "float64"}
ComplexKinds == {"complex64", "complex128"}

(***************************************************************************)
(* reflect.Type.  A defined (named) type has the import path of its        *)
(* package (PkgPath), the package's name and its own name; a predeclared   *)
(* or literal type has an empty path.  Type identity is the whole record.  *)
(***************************************************************************)
Builtin(kind, chars) == [kind |-> kind, path |-> <<>>, pkg |-> <<>>, name |-> Bytes(chars)]
Named(kind, path, pkg, chars) ==
  [kind |-> kind, path |-> Bytes(path), pkg |-> Bytes(pkg), name |-> Bytes(chars)]
PtrTo(t) ==
  IF t.kind = "ptr" THEN [kind |-> "ptr", n |-> t.n + 1, base |-> t.base]
  ELSE [kind |-> "ptr", n |-> 1, base |-> t]
SliceOf(t) == [kind |-> "slice", elem |-> t]
ArrayOf(n, t) == [kind |-> "array", len |-> n, elem |-> t]
MapOf(kt, vt) == [kind |-> "map", key |-> kt, elem |-> vt]

\* Type.Elem of a pointer type.
ElemType(t) == IF t.n = 1 THEN t.base ELSE [kind |-> "ptr", n |-> t.n - 1, base |-> t.base]

\* Type.String: a defined type prints as <package name>.<name>, which two
\* packages of the same name share; a composite type prints structurally.
RECURSIVE TypeString(_)
TypeString(t) ==
  CASE t.kind = "ptr" -> Repeat(42, t.n) \o TypeString(t.base)
    [] t.kind = "slice" -> <<91, 93>> \o TypeString(t.elem)
    [] t.kind = "array" -> <<91>> \o Itoa(t.len) \o <<93>> \o TypeString(t.elem)
    [] t.kind = "map" ->
         Bytes(<<"m", "a", "p", "[">>) \o TypeString(t.key) \o <<93>> \o TypeString(t.elem)
    [] OTHER -> IF t.pkg = <<>> THEN t.name ELSE t.pkg \o <<46>> \o t.name

\* Type.PkgPath: empty for predeclared and for literal (unnamed) types.
PkgPath(t) == IF t.kind \in {"ptr", "slice", "array", "map"} THEN <<>> ELSE t.path

TInt == Builtin("int", <<"i", "n", "t">>)
TInt8 == Builtin("int8", <<"i", "n", "t", "8">>)
TUint == Builtin("uint", <<"u", "i", "n", "t">>)
TBool == Builtin("bool", <<"b", "o", "o", "l">>)
TFloat64 == Builtin("float64", <<"f", "l", "o", "a", "t", "6", "4">>)
TString == Builtin("string", <<"s", "t", "r", "i", "n", "g">>)
TAny == Builtin("interface", <<"i", "n", "t", "e", "r", "f", "a", "c", "e", " ", "{", "}">>)
TFunc == Builtin("func", <<"f", "u", "n", "c", "(", ")">>)
TChan == Builtin("chan", <<"c", "h", "a", "n", " ", "i", "n", "t">>)
TEmptyStruct == Builtin("struct", <<"s", "t", "r", "u", "c", "t", " ", "{", "}">>)
\* type MyInt int, in package main
TMyInt == Named("int", <<"m", "a", "i", "n">>, <<"m", "a", "i", "n">>, <<"M", "y", "I", "n", "t">>)
\* type T int, once in package a/x and once in package b/x
TaxT == Named("int", <<"a", "/", "x">>, <<"x">>, <<"T">>)
TbxT == Named("int", <<"b", "/", "x">>, <<"x">>, <<"T">>)
\* type Node struct { Next *Node }, type Key struct { Hi, Lo string },
\* type Pair struct { K int; hidden int }, type Cb struct { F func() }
TNode == Named("struct", <<"m", "a", "i", "n">>, <<"m", "a", "i", "n">>, <<"N", "o", "d", "e">>)
TKey == Named("struct", <<"m", "a", "i", "n">>, <<"m", "a", "i", "n">>, <<"K", "e", "y">>)
TPair == Named("struct", <<"m", "a", "i", "n">>, <<"m", "a", "i", "n">>, <<"P", "a", "i", "r">>)
TCb == Named("struct", <<"m", "a", "i", "n">>, <<"m", "a", "i", "n">>, <<"C", "b">>)

(***************************************************************************)
(* Go values.  addr = 0 is the nil pointer, the nil slice and the nil map. *)
(***************************************************************************)
Nil == [k |-> "invalid"]                      \* the nil interface: any(nil)
Scalar(t, v) == [k |-> t.kind, t |-> t, v |-> v]
IntVal(v) == Scalar(TInt, v)
Bool(b) == [k |-> "bool", t |-> TBool, b |-> b]
\* A float64 is held in halves: Float(5) is 2.5.
Float(h) == [k |-> "float64", t |-> TFloat64, h |-> h, nan |-> FALSE]
\* math.NaN()
NaN == [k |-> "float64", t |-> TFloat64, h |-> 0, nan |-> TRUE]
Str(bytes) == [k |-> "string", t |-> TString, s |-> bytes]
Ptr(t, addr) == [k |-> "ptr", t |-> t, addr |-> addr]
Slice(t, addr, len) == [k |-> "slice", t |-> t, addr |-> addr, len |-> len]
Array(t, elems) == [k |-> "array", t |-> t, elems |-> elems]
Map(t, addr) == [k |-> "map", t |-> t, addr |-> addr]
Field(exported, val) == [exported |-> exported, val |-> val]
Struct(t, fields) == [k |-> "struct", t |-> t, fields |-> fields]
Func == [k |-> "func", t |-> TFunc]
Chan == [k |-> "chan", t |-> TChan]
Entry(key, val) == [key |-> key, val |-> val]

NilPtr(t) == Ptr(PtrTo(t), 0)
NilSlice(t) == Slice(SliceOf(t), 0, 0)
NilMap(kt, vt) == Map(MapOf(kt, vt), 0)

(***************************************************************************)
(* The limits of walkObject, and the bounds of the inputs.                 *)
(***************************************************************************)
DepthLimit == 100       \* if depth > 100
PtrLimit == 100         \* if pDepth >= 100
\* The longest pointer chain and the deepest nesting among the inputs lie
\* this far beyond the limits.
MaxBeyond == 1
\* The keys of the largest map among the inputs.
MaxKeys == 3

(***************************************************************************)
(* Memory.  Heap[a] is what address a holds: the pointee of a pointer, one *)
(* element of a slice's backing array (element i of a slice at a is        *)
(* Heap[a + i]), or the entries of a map.                                  *)
(***************************************************************************)
Addr ==
  [zerobase |-> 1, chain |-> 1000, nest |-> 2000, x42 |-> 10, px42 |-> 11,
   iface |-> 12, loop |-> 13, ints |-> 20, anys |-> 22, grpA |-> 24,
   grpAin |-> 26, grpB |-> 27, grpBin |-> 28, strsA |-> 30, strsB |-> 32,
   fails |-> 33, funcs |-> 35, selfSlice |-> 36, hdr |-> 37, emptyMap |-> 40,
   emptyMap2 |-> 41, mapAB |-> 42, mapMixed |-> 43, mapTest |-> 44,
   mapKeys |-> 45, selfMap |-> 46, mapNaN |-> 47, nodeA |-> 50, nodeB |-> 51, twice |-> 52,
   twins |-> 54, seven |-> 56, seven2 |-> 57, outer |-> 58, inner |-> 59]

TSliceAny == SliceOf(TAny)
TMapAny == MapOf(TAny, TAny)

\* The chain of n pointers ending in int(1): *...*int, n stars.
Chain(n) ==
  IF n = 0 THEN IntVal(1)
  ELSE Ptr([kind |-> "ptr", n |-> n, base |-> TInt], Addr.chain + n - 1)

\* n nested one-element []any around int(7).
Nest(n) == IF n = 0 THEN IntVal(7) ELSE Slice(TSliceAny, Addr.nest + n - 1, 1)

MaxChain == 150
ChainCells == [a \in Addr.chain .. (Addr.chain + MaxChain) |-> Chain(a - Addr.chain)]
NestCells ==
  [a \in Addr.nest .. (Addr.nest + DepthLimit + MaxBeyond) |-> Nest(a - Addr.nest)]

Heap ==
  ChainCells @@ NestCells @@
  \* x := 42; px := &x; ppx := &px
  (Addr.x42 :> IntVal(42)) @@ (Addr.px42 :> Ptr(PtrTo(TInt), Addr.x42)) @@
  \* var i any = 42; &i
  (Addr.iface :> IntVal(42)) @@
  \* var a any; a = &a
  (Addr.loop :> Ptr(PtrTo(TAny), Addr.loop)) @@
  \* []int{1, 2} and []any{1, 2}
  (Addr.ints :> IntVal(1)) @@ (Addr.ints + 1 :> IntVal(2)) @@
  (Addr.anys :> IntVal(1)) @@ (Addr.anys + 1 :> IntVal(2)) @@
  \* []any{[]any{1}, 2} and []any{[]any{1, 2}}
  (Addr.grpA :> Slice(TSliceAny, Addr.grpAin, 1)) @@ (Addr.grpA + 1 :> IntVal(2)) @@
  (Addr.grpAin :> IntVal(1)) @@
  (Addr.grpB :> Slice(TSliceAny, Addr.grpBin, 2)) @@
  (Addr.grpBin :> IntVal(1)) @@ (Addr.grpBin + 1 :> IntVal(2)) @@
  \* []string{"a", "b"} and []string{"a\x18b"}
  (Addr.strsA :> Str(<<97>>)) @@ (Addr.strsA + 1 :> Str(<<98>>)) @@
  (Addr.strsB :> Str(<<97, 24, 98>>)) @@
  \* []any{<chain of PtrLimit pointers>, 1}
  (Addr.fails :> Chain(PtrLimit)) @@ (Addr.fails + 1 :> IntVal(1)) @@
  \* []any{func() {}}
  (Addr.funcs :> Func) @@
  \* s := []any{nil}; s[0] = s
  (Addr.selfSlice :> Slice(TSliceAny, Addr.selfSlice, 1)) @@
  \* the variable that holds the slice []any{1, 2}
  (Addr.hdr :> Slice(TSliceAny, Addr.anys, 2)) @@
  \* map[int]string{} and map[string]string{}
  (Addr.emptyMap :> <<>>) @@ (Addr.emptyMap2 :> <<>>) @@
  \* map[string]int{"a": 1, "b": 2}
  (Addr.mapAB :> <<Entry(Str(<<97>>), IntVal(1)), Entry(Str(<<98>>), IntVal(2))>>) @@
  \* map[any]any{42: "n", "42": "s"}
  (Addr.mapMixed :> <<Entry(IntVal(42), Str(<<110>>)), Entry(Str(<<52, 50>>), Str(<<115>>))>>) @@
  \* map[any]any{"foo": "bar", 42: "answer", true: "boolean"}
  (Addr.mapTest :> <<Entry(Str(Bytes(<<"f", "o", "o">>)), Str(Bytes(<<"b", "a", "r">>))),
                     Entry(IntVal(42), Str(Bytes(<<"a", "n", "s", "w", "e", "r">>))),
                     Entry(Bool(TRUE), Str(Bytes(<<"b", "o", "o", "l">>)))>>) @@
  \* map[Key]int{{"a b", "c"}: 1, {"a", "b c"}: 2}
  (Addr.mapKeys :>
     <<Entry(Struct(TKey, <<Field(TRUE, Str(<<97, 32, 98>>)), Field(TRUE, Str(<<99>>))>>), IntVal(1)),
       Entry(Struct(TKey, <<Field(TRUE, Str(<<97>>)), Field(TRUE, Str(<<98, 32, 99>>))>>), IntVal(2))>>) @@
  \* map[float64]int{math.NaN(): 1}
  (Addr.mapNaN :> <<Entry(NaN, IntVal(1))>>) @@
  \* m := map[string]any{}; m["m"] = m
  (Addr.selfMap :> <<Entry(Str(<<109>>), Map(MapOf(TString, TAny), Addr.selfMap))>>) @@
  \* n := &Node{}; n.Next = n, built twice
  (Addr.nodeA :> Struct(TNode, <<Field(TRUE, Ptr(PtrTo(TNode), Addr.nodeA))>>)) @@
  (Addr.nodeB :> Struct(TNode, <<Field(TRUE, Ptr(PtrTo(TNode), Addr.nodeB))>>)) @@
  \* p := &seven; []any{p, p}, and q := &seven2; []any{p, q}
  (Addr.seven :> IntVal(7)) @@ (Addr.seven2 :> IntVal(7)) @@
  (Addr.twice :> Ptr(PtrTo(TInt), Addr.seven)) @@ (Addr.twice + 1 :> Ptr(PtrTo(TInt), Addr.seven)) @@
  (Addr.twins :> Ptr(PtrTo(TInt), Addr.seven)) @@ (Addr.twins + 1 :> Ptr(PtrTo(TInt), Addr.seven2)) @@
  \* []any{[]any{<chain of PtrLimit - 1 pointers>}}
  (Addr.outer :> Slice(TSliceAny, Addr.inner, 1)) @@ (Addr.inner :> Chain(PtrLimit - 1))

(***************************************************************************)
(* The inputs From is applied to.                                          *)
(***************************************************************************)
Scalars ==
  {IntVal(0), IntVal(1), IntVal(2), IntVal(42), Scalar(TUint, 42), Scalar(TInt8, 42),
   Scalar(TMyInt, 42), Bool(FALSE), Bool(TRUE), Float(84), Float(5),
   Str(<<>>), Str(<<52, 50>>)}

Nils ==
  {Nil, NilPtr(TInt), NilPtr(TString), NilPtr(TaxT), NilPtr(TbxT),
   NilPtr(PtrTo(TInt)), NilSlice(TInt), NilSlice(TString),
   NilMap(TString, TString), NilMap(TInt, TString)}

Empties ==
  {Slice(SliceOf(TInt), Addr.zerobase, 0), Slice(SliceOf(TString), Addr.zerobase, 0),
   Map(MapOf(TInt, TString), Addr.emptyMap), Map(MapOf(TString, TString), Addr.emptyMap2),
   Array(ArrayOf(0, TInt), <<>>), Struct(TEmptyStruct, <<>>)}

Pointers ==
  {Chain(1), Chain(2), Chain(PtrLimit - 1), Chain(PtrLimit),
   Chain(PtrLimit + MaxBeyond), Chain(MaxChain),
   Ptr(PtrTo(TInt), Addr.x42), Ptr(PtrTo(PtrTo(TInt)), Addr.px42),
   Ptr(PtrTo(TAny), Addr.iface), Ptr(PtrTo(TAny), Addr.loop),
   Ptr(PtrTo(TSliceAny), Addr.hdr)}

Seqs ==
  {Slice(SliceOf(TInt), Addr.ints, 2), Slice(TSliceAny, Addr.anys, 2),
   Slice(TSliceAny, Addr.grpA, 2), Slice(TSliceAny, Addr.grpB, 1),
   Slice(SliceOf(TString), Addr.strsA, 2), Slice(SliceOf(TString), Addr.strsB, 1),
   Slice(TSliceAny, Addr.fails, 2), Slice(TSliceAny, Addr.funcs, 1),
   Slice(TSliceAny, Addr.selfSlice, 1),
   Slice(TSliceAny, Addr.twice, 2), Slice(TSliceAny, Addr.twins, 2),
   Slice(TSliceAny, Addr.outer, 1),
   Array(ArrayOf(2, TInt), <<IntVal(1), IntVal(2)>>),
   Nest(DepthLimit), Nest(DepthLimit + MaxBeyond)}

Maps ==
  {Map(MapOf(TString, TInt), Addr.mapAB), Map(TMapAny, Addr.mapMixed),
   Map(TMapAny, Addr.mapTest), Map(MapOf(TKey, TInt), Addr.mapKeys),
   Map(MapOf(TString, TAny), Addr.selfMap), Map(MapOf(TFloat64, TInt), Addr.mapNaN)}

Structs ==
  {Ptr(PtrTo(TNode), Addr.nodeA), Ptr(PtrTo(TNode), Addr.nodeB),
   Struct(TPair, <<Field(TRUE, IntVal(42)), Field(FALSE, IntVal(7))>>),
   Struct(TPair, <<Field(TRUE, IntVal(42)), Field(FALSE, IntVal(8))>>),
   Struct(TCb, <<Field(TRUE, Func)>>)}

Unsupported == {Func, Chan}

Inputs == Scalars \cup Nils \cup Empties \cup Pointers \cup Seqs \cup Maps
            \cup Structs \cup Unsupported

(***************************************************************************)
(* The hash sink and the state of one From call.  st holds the sink (out,  *)
(* the bytes written; nwrites, the writes so far; failAt, the write the    *)
(* sink rejects, 0 for a sink that rejects none; rejected, whether the     *)
(* last write was rejected), the visited set, and err, the error being     *)
(* returned: its wrapping prefixes, outermost first, <<>> for nil.         *)
(***************************************************************************)
MaxFail == 2
\* The sinks: the one that rejects no write (0), and those that reject one.
FailAts == 0 .. MaxFail

\* hasher.Write(p): the sink appends p, or rejects its failAt-th write.
Write(st, p) ==
  IF st.nwrites + 1 = st.failAt
  THEN [st EXCEPT !.nwrites = @ + 1, !.rejected = TRUE]
  ELSE [st EXCEPT !.nwrites = @ + 1, !.rejected = FALSE, !.out = @ \o p]

\* return fmt.Errorf(...)
Fail(st, what) == [st EXCEPT !.err = <<what>>]

\* return fmt.Errorf("<frame>: %w", err)
Wrap(st, frame) == [st EXCEPT !.err = <<frame>> \o @]

\* if err := binary.Write(hasher, binary.LittleEndian, data); err != nil {
\*     return fmt.Errorf("writer: %w", err) }
binaryWrite(st, data) ==
  LET s1 == Write(st, data)
  IN IF s1.rejected THEN Fail(s1, "writer") ELSE s1

(***************************************************************************)
(* encoding/binary, little endian.                                         *)
(***************************************************************************)
\* The n low bytes of the two's complement of v, least significant first.
RECURSIVE LittleEndian(_, _)
LittleEndian(v, n) ==
  IF n = 0 THEN <<>> ELSE <<v % 256>> \o LittleEndian(v \div 256, n - 1)

RECURSIVE BitLen(_)
BitLen(m) == IF m = 0 THEN 0 ELSE 1 + BitLen(m \div 2)

RECURSIVE Pow2(_)
Pow2(n) == IF n = 0 THEN 1 ELSE 2 * Pow2(n - 1)

\* math.Float64bits of h/2, little endian: sign, 11 bits of biased exponent,
\* 52 bits of fraction.  |h| < 2^13, so the fraction fits its 12 high bits.
Float64Bytes(h) ==
  LET m == IF h < 0 THEN 0 - h ELSE h
      sign == IF h < 0 THEN 128 ELSE 0
      n == BitLen(m)
      biased == (n - 2) + 1023
      frac12 == ((m - Pow2(n - 1)) * 4096) \div Pow2(n - 1)
      top16 == biased * 16 + frac12 \div 256
  IN IF m = 0 THEN <<0, 0, 0, 0, 0, 0, 0, sign>>
     ELSE <<0, 0, 0, 0, 0, frac12 % 256, top16 % 256, sign + top16 \div 256>>

\* rv.Float() as binary.Write writes it; math.NaN() is 0x7FF8000000000001.
Float64bits(v) == IF v.nan THEN <<1, 0, 0, 0, 0, 0, 248, 127>> ELSE Float64Bytes(v.h)

(***************************************************************************)
(* fmt.Sprintf("%v", v), for the kinds a map key can have.                 *)
(***************************************************************************)
FormatFloat(h) ==
  LET m == IF h < 0 THEN 0 - h ELSE h
      text == Digits(m \div 2) \o (IF m % 2 = 1 THEN <<46, 53>> ELSE <<>>)
  IN IF h < 0 THEN <<45>> \o text ELSE text

RECURSIVE Sprint(_)
RECURSIVE SprintAll(_, _)
\* The operands of a struct or an array, separated by spaces.
SprintAll(vals, i) ==
  IF i > Len(vals) THEN <<>>
  ELSE (IF i > 1 THEN <<32>> ELSE <<>>) \o Sprint(vals[i]) \o SprintAll(vals, i + 1)

Sprint(v) ==
  CASE v.k = "invalid" -> Bytes(<<"<", "n", "i", "l", ">">>)
    [] v.k \in SignedKinds \cup UnsignedKinds -> Itoa(v.v)
    [] v.k = "string" -> v.s
    [] v.k = "bool" -> IF v.b THEN Bytes(<<"t", "r", "u", "e">>)
                       ELSE Bytes(<<"f", "a", "l", "s", "e">>)
    [] v.k \in FloatKinds -> IF v.nan THEN Bytes(<<"N", "a", "N">>) ELSE FormatFloat(v.h)
    [] v.k = "struct" ->
         <<123>> \o SprintAll([i \in DOMAIN v.fields |-> v.fields[i].val], 1) \o <<125>>
    [] v.k = "array" -> <<91>> \o SprintAll(v.elems, 1) \o <<93>>

(***************************************************************************)
(* compareMapKeys compares two reflect.Values for sorting.  A key that     *)
(* MapKeys returns is [typ |-> the map's key type, val |-> the key]: its   *)
(* Type and Kind are those of the map's key type, so a key of a            *)
(* map[any]... has Kind Interface whatever it holds.                       *)
(***************************************************************************)
Cmp(lt, gt) == IF lt THEN -1 ELSE IF gt THEN 1 ELSE 0

\* aFloat < bFloat: false when either is NaN.
FloatLess(a, b) == ~a.nan /\ ~b.nan /\ a.h < b.h

compareMapKeys(a, b) ==
  LET aType == TypeString(a.typ)
      bType == TypeString(b.typ)
  IN IF aType # bType THEN (IF LessBytes(aType, bType) THEN -1 ELSE 1)
     ELSE CASE a.typ.kind = "string" ->
                 Cmp(LessBytes(a.val.s, b.val.s), LessBytes(b.val.s, a.val.s))
            [] a.typ.kind \in SignedKinds -> Cmp(a.val.v < b.val.v, a.val.v > b.val.v)
            [] a.typ.kind \in UnsignedKinds -> Cmp(a.val.v < b.val.v, a.val.v > b.val.v)
            [] a.typ.kind \in FloatKinds -> Cmp(FloatLess(a.val, b.val), FloatLess(b.val, a.val))
            [] a.typ.kind = "bool" -> Cmp(~a.val.b /\ b.val.b, a.val.b /\ ~b.val.b)
            [] OTHER ->
                 LET aStr == Sprint(a.val)
                     bStr == Sprint(b.val)
                 IN Cmp(LessBytes(aStr, bStr), LessBytes(bStr, aStr))

\* The less function handed to sort.Slice.
keysLess(a, b) == compareMapKeys(a, b) < 0

\* sort.Slice: for up to 12 elements, insertion sort with the less function.
RECURSIVE siftLeft(_, _)
siftLeft(keys, j) ==
  IF j > 1 /\ keysLess(keys[j], keys[j - 1])
  THEN siftLeft([keys EXCEPT ![j] = keys[j - 1], ![j - 1] = keys[j]], j - 1)
  ELSE keys

RECURSIVE insertionSort(_, _)
insertionSort(keys, i) ==
  IF i > Len(keys) THEN keys ELSE insertionSort(siftLeft(keys, i), i + 1)

sortSlice(keys) == insertionSort(keys, 2)

(***************************************************************************)
(* reflect on maps, slices and pointers.                                   *)
(***************************************************************************)
\* rv.MapKeys(): the keys in the order the runtime yields them.  ord is a
\* permutation of 1..MaxKeys; a smaller map is iterated in the induced order.
MapKeys(rv, ord) ==
  LET entries == Heap[rv.addr]
      idx == SelectSeq(ord, LAMBDA i : i <= Len(entries))
  IN [j \in DOMAIN idx |-> [typ |-> rv.t.key, val |-> entries[idx[j]].key]]

\* The zero reflect.Value; its Interface() panics.
ZeroValue == [k |-> "zero Value"]

\* The == of map keys: a NaN equals nothing, itself included.
KeyEq(a, b) == a = b /\ ~(a.k \in FloatKinds /\ a.nan)

\* rv.MapIndex(key): the value of the entry with that key, or the zero Value.
MapIndex(rv, key) ==
  LET entries == Heap[rv.addr]
      found == {i \in DOMAIN entries : KeyEq(entries[i].key, key.val)}
  IN IF found = {} THEN ZeroValue ELSE entries[CHOOSE i \in found : TRUE].val

\* rv.Len()
LenOf(rv) ==
  CASE rv.k = "array" -> Len(rv.elems)
    [] rv.k = "slice" -> rv.len
    [] rv.k = "map" -> IF rv.addr = 0 THEN 0 ELSE Len(Heap[rv.addr])

\* rv.Index(i).Interface(), i from 1
Index(rv, i) == IF rv.k = "array" THEN rv.elems[i] ELSE Heap[rv.addr + i - 1]

\* rv.IsNil()
IsNil(rv) == rv.addr = 0

NoType == [kind |-> "none"]      \* var rt reflect.Type

\* The local variables of an invocation: rv, rt, kind and pDepth are the
\* code's (kind is rv.Kind()).
LoopVars(rv, rt, kind, pDepth) ==
  [rv |-> rv, rt |-> rt, kind |-> kind, pDepth |-> pDepth]

\* rv := reflect.ValueOf(input); kind := rv.Kind(); var rt reflect.Type; pDepth := 0
Locals(input) == LoopVars(input, NoType, input.k, 0)

\* pDepth++; rt = rv.Type().Elem(); rv = rv.Elem(); kind = rv.Kind().  What a
\* non-nil pointer to an interface type yields has Kind Interface.
deref(r) ==
  LET rt == ElemType(r.rv.t)
      rv == IF IsNil(r.rv) THEN Nil ELSE Heap[r.rv.addr]
      kind == IF ~IsNil(r.rv) /\ rt.kind = "interface" THEN "interface" ELSE rv.k
  IN LoopVars(rv, rt, kind, r.pDepth + 1)

\* rv = rv.Elem(); if rv.IsValid() { rt = rv.Type() }; kind = rv.Kind()
unwrap(r) ==
  LoopVars(r.rv, IF r.rv.k # "invalid" THEN r.rv.t ELSE r.rt, r.rv.k, r.pDepth)

\* if pDepth >= 100 { return fmt.Errorf("... has too many pointers") }
tooManyPointers(pDepth) == pDepth >= PtrLimit

\* The kinds the loop goes round on: if kind == reflect.Pointer { ...; continue }
\* if kind == reflect.Interface { ...; continue }; break
Indirect == {"ptr", "interface"}

\* One iteration of the loop that comes back to its top.
loopIteration(r) == IF r.kind = "ptr" THEN deref(r) ELSE unwrap(r)

(***************************************************************************)
(* walkObject recursively iterates over structs, maps and arrays and adds  *)
(* values into hasher.  One invocation is a frame [pc, val, depth, i,      *)
(* keys, r] on the call stack.  walkObject(input, st, depth) is the        *)
(* invocation up to its pointer loop and walkSwitch(r, st) its switch:     *)
(* each either returns (returned, with st.err the error it returns) or     *)
(* goes on at pc.  The loops are the actions further down.                 *)
(***************************************************************************)
RefKinds == {"ptr", "map", "slice", "interface"}

Returned(st) == [st |-> st, returned |-> TRUE, pc |-> "return"]
Looping(st, pc) == [st |-> st, returned |-> FALSE, pc |-> pc]

\* The tag byte: vt[0] = byte(kind); hasher.Write(vt[:1])
writeTag(st, kind) == Write(st, <<KindByte[kind]>>)

\* Check for cycles on pointer-like types: the nil return.
walkNil(input, st) ==
  IF input.k = "ptr" THEN Write(st, TypeString(input.t)) ELSE st

\* case reflect.Invalid
walkInvalid(r, st) ==
  IF r.rt.kind # "none" /\ r.rt.kind # "interface"
  THEN Write(st, TypeString(r.rt))
  ELSE st

\* The scalar cases: the tag byte, then binary.Write of the value.
walkScalar(r, st) ==
  LET s1 == writeTag(st, r.kind)
  IN CASE r.kind \in UnsignedKinds \cup {"uintptr"} -> binaryWrite(s1, LittleEndian(r.rv.v, 8))
       [] r.kind \in SignedKinds -> binaryWrite(s1, LittleEndian(r.rv.v, 8))
       [] r.kind \in FloatKinds -> binaryWrite(s1, Float64bits(r.rv))
       [] r.kind \in ComplexKinds ->
            binaryWrite(s1, Float64Bytes(r.rv.re) \o Float64Bytes(r.rv.im))
       [] r.kind = "bool" -> binaryWrite(s1, <<IF r.rv.b THEN 1 ELSE 0>>)
       [] r.kind = "string" -> binaryWrite(s1, r.rv.s)

\* case reflect.Array, reflect.Slice
walkSlice(r, st) ==
  IF LenOf(r.rv) = 0 THEN Returned(Write(st, TypeString(r.rv.t)))
  ELSE Looping(writeTag(st, r.kind), "slice")

\* case reflect.Map
walkMap(r, st) ==
  IF LenOf(r.rv) = 0 THEN Returned(Write(st, TypeString(r.rv.t)))
  ELSE Looping(writeTag(st, r.kind), "map")

\* case reflect.Struct
walkStruct(r, st) ==
  LET s1 == Write(Write(st, TypeString(r.rv.t)), PkgPath(r.rv.t))
  IN IF Len(r.rv.fields) = 0 THEN Returned(s1)
     ELSE Looping(writeTag(s1, r.kind), "struct")

\* switch kind { ... }; a kind without a case (func, chan, unsafe pointer)
\* falls out of the switch to the final return nil.
walkSwitch(r, st) ==
  CASE r.kind = "invalid" -> Returned(walkInvalid(r, st))
    [] r.kind \in UnsignedKinds \cup {"uintptr"} \cup SignedKinds \cup FloatKinds
                  \cup ComplexKinds \cup {"bool", "string"} -> Returned(walkScalar(r, st))
    [] r.kind \in {"array", "slice"} -> walkSlice(r, st)
    [] r.kind = "map" -> walkMap(r, st)
    [] r.kind = "struct" -> walkStruct(r, st)
    [] OTHER -> Returned(st)

\* if visited[ptr] { return nil }
alreadyVisited(input, st) == input.addr \in st.visited

\* visited[ptr] = true
markVisited(input, st) == [st EXCEPT !.visited = @ \cup {input.addr}]

\* if depth > 100 { return fmt.Errorf("depth exceeded ...") }
depthExceeded(depth) == depth > DepthLimit

walkObject(input, st, depth) ==
  IF depthExceeded(depth) THEN Returned(Fail(st, "depth exceeded"))
  ELSE LET isRef == input.k \in RefKinds
       IN IF isRef /\ IsNil(input) THEN Returned(walkNil(input, st))
          ELSE IF isRef /\ alreadyVisited(input, st) THEN Returned(st)
          ELSE Looping(IF isRef THEN markVisited(input, st) ELSE st, "loop")

(***************************************************************************)
(* The state machine.  Two From calls are made one after the other, each   *)
(* on one of the inputs and each with a fresh sink of the kind sink (the   *)
(* write it rejects, 0 for none).  cur is the call in progress (0: none),  *)
(* stack its walkObject invocations (innermost first) and st its state.  A *)
(* frame is at pc "call" (about to start), "loop" (in the pointer loop) or *)
(* "slice", "map", "struct" (in the loop over its children).  result[c]    *)
(* is what call c returned: hash, hashNil and err, with panic (the call    *)
(* panicked and returned nothing), sum (whether hasher.Sum was called) and *)
(* the sink's contents.                                                    *)
(***************************************************************************)
VARIABLES input, sink, result, cur, stack, st
vars == <<input, sink, result, cur, stack, st>>

Calls == {1, 2}
NotRun == [done |-> FALSE]

NewState(failAt) ==
  [out |-> <<>>, nwrites |-> 0, failAt |-> failAt, rejected |-> FALSE,
   visited |-> {}, err |-> <<>>]

\* The invocation walkObject(val, hasher, depth, visited), about to start.
Call(val, depth) ==
  [pc |-> "call", val |-> val, depth |-> depth, i |-> 0, keys |-> <<>>, r |-> Locals(val)]

\* The orders in which the runtime can yield the keys of a map.
Orders ==
  {ord \in [1 .. MaxKeys -> 1 .. MaxKeys] : \A i, j \in 1 .. MaxKeys : ord[i] = ord[j] => i = j}

\* The inputs nested to the depth limit are hashed against themselves only,
\* and so is every input when the sink rejects a write.
Deep == {Nest(DepthLimit), Nest(DepthLimit + MaxBeyond)}

Init ==
  /\ input \in {p \in [Calls -> Inputs] : (p[1] \in Deep \/ p[2] \in Deep) => p[1] = p[2]}
  /\ sink \in {f \in FailAts : f # 0 => input[1] = input[2]}
  /\ result = [c \in Calls |-> NotRun]
  /\ cur = 0
  /\ stack = <<>>
  /\ st = NewState(sink)

\* From: visited := make(map[uintptr]bool); walkObject(input, hasher, 0, visited)
Start(c) ==
  /\ cur = 0
  /\ ~result[c].done
  /\ \A d \in Calls : d < c => result[d].done
  /\ cur' = c
  /\ stack' = <<Call(input[c], 0)>>
  /\ st' = NewState(sink)
  /\ UNCHANGED <<input, sink, result>>

\* The frame on top goes on as w says: it returns, or moves to w.pc.
Proceed(w) ==
  /\ st' = w.st
  /\ stack' = IF w.returned THEN Tail(stack)
              ELSE <<[Head(stack) EXCEPT !.pc = w.pc, !.i = 1]>> \o Tail(stack)
  /\ UNCHANGED <<input, sink, result, cur>>

\* An invocation runs up to its pointer loop: the depth check, the nil
\* return and the check for cycles.
Enter ==
  /\ stack # <<>>
  /\ Head(stack).pc = "call"
  /\ Proceed(walkObject(Head(stack).val, st, Head(stack).depth))

\* for { if pDepth >= 100 { return error }; dereference or unwrap; continue }
Loop ==
  /\ stack # <<>>
  /\ Head(stack).pc = "loop"
  /\ tooManyPointers(Head(stack).r.pDepth) \/ Head(stack).r.kind \in Indirect
  /\ IF tooManyPointers(Head(stack).r.pDepth)
     THEN st' = Fail(st, "too many pointers") /\ stack' = Tail(stack)
     ELSE st' = st /\ stack' = <<[Head(stack) EXCEPT !.r = loopIteration(@)]>> \o Tail(stack)
  /\ UNCHANGED <<input, sink, result, cur>>

\* The loop is left by its break (pDepth < 100, no pointer, no interface).
Broken(f) ==
  f.pc = "loop" /\ ~tooManyPointers(f.r.pDepth) /\ f.r.kind \notin Indirect

RangesMap(f) == f.r.kind = "map" /\ LenOf(f.r.rv) > 0

\* break; vt[0] = byte(kind); switch kind { ... }
Switch ==
  /\ stack # <<>>
  /\ Broken(Head(stack))
  /\ ~RangesMap(Head(stack))
  /\ Proceed(walkSwitch(Head(stack).r, st))

\* case reflect.Map, not empty: keys := rv.MapKeys(), in the order ord the
\* runtime yields them; sort.Slice(keys, ...).
SwitchMap(ord) ==
  /\ stack # <<>>
  /\ Broken(Head(stack))
  /\ RangesMap(Head(stack))
  /\ st' = walkSwitch(Head(stack).r, st).st
  /\ stack' = <<[Head(stack) EXCEPT !.pc = "map", !.i = 1,
                                    !.keys = sortSlice(MapKeys(Head(stack).r.rv, ord))]>>
                \o Tail(stack)
  /\ UNCHANGED <<input, sink, result, cur>>

\* A panic unwinds the call: From returns nothing.
Panicked(s) ==
  [done |-> TRUE, panic |-> TRUE, hash |-> <<>>, hashNil |-> TRUE, err |-> <<>>,
   sum |-> FALSE, out |-> s.out, visited |-> s.visited]

\* LoopStep with the error of the child dropped: _ = walkObject(...)
LoopStepDropsError(frame, children, label) ==
  /\ st' = [st EXCEPT !.err = <<>>]
  /\ stack' = IF frame.i > Len(children) THEN Tail(stack)
              ELSE <<Call(children[frame.i], frame.depth + 1),
                     [frame EXCEPT !.i = @ + 1]>> \o Tail(stack)
  /\ UNCHANGED <<input, sink, result, cur>>

\* A loop of the frame on top: the child it called last has returned.  If
\* the child returned an error the frame returns it wrapped; if no child is
\* left it returns nil; else it calls walkObject on its next child, whose
\* Interface() panics if it is the zero Value.
LoopStep(frame, children, label) ==
  IF st.err # <<>>
  THEN /\ st' = Wrap(st, label)
       /\ stack' = Tail(stack)
       /\ UNCHANGED <<input, sink, result, cur>>
  ELSE IF frame.i > Len(children)
  THEN /\ stack' = Tail(stack)
       /\ UNCHANGED <<input, sink, result, cur, st>>
  ELSE IF children[frame.i] = ZeroValue
  THEN /\ result' = [result EXCEPT ![cur] = Panicked(st)]
       /\ cur' = 0
       /\ stack' = <<>>
       /\ UNCHANGED <<input, sink, st>>
  ELSE /\ stack' = <<Call(children[frame.i], frame.depth + 1),
                     [frame EXCEPT !.i = @ + 1]>> \o Tail(stack)
       /\ UNCHANGED <<input, sink, result, cur, st>>

\* for i := range rv.Len() { walkObject(rv.Index(i).Interface(), ..., depth+1, ...) }
SliceLoop ==
  /\ stack # <<>>
  /\ Head(stack).pc = "slice"
  /\ LET f == Head(stack)
     IN LoopStep(f, [i \in 1 .. LenOf(f.r.rv) |-> Index(f.r.rv, i)], "slice")

\* for _, key := range keys { walkObject(key.Interface(), ...);
\*                            walkObject(rv.MapIndex(key).Interface(), ...) }
MapLoop ==
  /\ stack # <<>>
  /\ Head(stack).pc = "map"
  /\ LET f == Head(stack)
         children == [i \in 1 .. 2 * Len(f.keys) |->
                        IF i % 2 = 1 THEN f.keys[(i + 1) \div 2].val
                        ELSE MapIndex(f.r.rv, f.keys[i \div 2])]
     IN LoopStep(f, children, "map value")

\* for i := range nFields { if !field.CanInterface() { continue }; walkObject(...) }
StructLoop ==
  /\ stack # <<>>
  /\ Head(stack).pc = "struct"
  /\ LET f == Head(stack)
         exported == SelectSeq(f.r.rv.fields, LAMBDA fl : fl.exported)
     IN LoopStep(f, [i \in DOMAIN exported |-> exported[i].val], "struct")

\* From's return: nil and the wrapped error, or hasher.Sum(nil) and nil.
FromReturn(s) ==
  IF s.err # <<>>
  THEN [done |-> TRUE, panic |-> FALSE, hash |-> <<>>, hashNil |-> TRUE,
        err |-> <<"from">> \o s.err, sum |-> FALSE, out |-> s.out, visited |-> s.visited]
  ELSE [done |-> TRUE, panic |-> FALSE, hash |-> s.out, hashNil |-> FALSE,
        err |-> <<>>, sum |-> TRUE, out |-> s.out, visited |-> s.visited]

Finish ==
  /\ cur # 0
  /\ stack = <<>>
  /\ result' = [result EXCEPT ![cur] = FromReturn(st)]
  /\ cur' = 0
  /\ UNCHANGED <<input, sink, stack, st>>

Next ==
  \/ \E c \in Calls : Start(c)
  \/ Enter
  \/ Loop
  \/ Switch
  \/ \E ord \in Orders : SwitchMap(ord)
  \/ SliceLoop
  \/ MapLoop
  \/ StructLoop
  \/ Finish

Spec == Init /\ [][Next]_vars

\* The program runs on: a call in progress takes its next step.
FairSpec == Spec /\ WF_vars(Next)

(***************************************************************************)
(* What the properties speak of.                                           *)
(***************************************************************************)
Done(c) == result[c].done
BothDone == Done(1) /\ Done(2)
\* The sink rejects no write.
Reliable == sink = 0
\* Call c returned a digest; call c returned an error and no digest.
Succeeded(c) == Done(c) /\ ~result[c].panic /\ result[c].err = <<>> /\ ~result[c].hashNil
Failed(c) == Done(c) /\ ~result[c].panic /\ result[c].err # <<>> /\ result[c].hashNil
SameStream == result[1].out = result[2].out
SameDigest == result[1].hashNil = result[2].hashNil /\ result[1].hash = result[2].hash

TypeOf(v) == IF v.k = "invalid" THEN NoType ELSE v.t
IntegerKinds == SignedKinds \cup UnsignedKinds \cup {"uintptr"}
IsCollection(v) == v.k \in {"slice", "array", "map"}
IsNilPtr(v) == v.k = "ptr" /\ v.addr = 0
\* v is nil: the nil interface, or a nil pointer, slice or map.
IsNilValue(v) == v.k = "invalid" \/ (v.k \in {"ptr", "slice", "map"} /\ v.addr = 0)

\* The inputs that refer to themselves.
SelfReferential ==
  {Ptr(PtrTo(TNode), Addr.nodeA), Ptr(PtrTo(TNode), Addr.nodeB),
   Ptr(PtrTo(TAny), Addr.loop), Slice(TSliceAny, Addr.selfSlice, 1),
   Map(MapOf(TString, TAny), Addr.selfMap)}

\* What n pointer dereferences of v lead to.
follow(v) == IF v.k = "ptr" /\ v.addr # 0 THEN Heap[v.addr] ELSE v
RECURSIVE Follow(_, _)
Follow(v, n) ==
  IF v.k # "ptr" \/ n = 0 THEN v
  ELSE IF n = 1 THEN follow(v)
  ELSE Follow(Follow(v, n \div 2), n - n \div 2)

\* The pointer layers between w and v if w refers to v: w is *...*B; v is
\* reached after all of w's stars, or, if v is itself a *...*B, after the
\* stars w has more than v.
Layers(w, v) ==
  IF v.k = "ptr" /\ w.t.base = v.t.base THEN w.t.n - v.t.n ELSE w.t.n

\* w is a reference to v: v with pointer (and boxed interface) layers added.
RefTo(w, v) ==
  /\ w.k = "ptr"
  /\ w.addr # 0
  /\ Layers(w, v) >= 1
  /\ Follow(w, Layers(w, v)) = v

\* The chain of n pointers ending in a scalar.
IsChain(v) == v.k = "ptr" /\ v = Chain(v.t.n)

\* A function or a channel is the input itself, or an element or an
\* exported field of it.
IsUnsupported(v) == v.k \in {"func", "chan"}
ReachesUnsupported(v) ==
  \/ IsUnsupported(v)
  \/ v.k = "slice" /\ \E i \in 1 .. LenOf(v) : IsUnsupported(Index(v, i))
  \/ v.k = "struct" /\ \E i \in DOMAIN v.fields :
                          v.fields[i].exported /\ IsUnsupported(v.fields[i].val)

\* The hashable content of a value, without the addresses it lives at (but
\* for whether a reference is nil), down to fuel levels of nesting.
MaxContent == 3
RECURSIVE Content(_, _)
Content(v, fuel) ==
  IF fuel = 0 THEN [k |-> "deeper"]
  ELSE CASE v.k \in {"slice", "array"} ->
              [k |-> v.k, t |-> v.t, nil |-> v.k = "slice" /\ v.addr = 0,
               elems |-> [i \in 1 .. LenOf(v) |-> Content(Index(v, i), fuel - 1)]]
         [] v.k = "struct" ->
              [k |-> v.k, t |-> v.t,
               elems |-> LET ex == SelectSeq(v.fields, LAMBDA fl : fl.exported)
                         IN [i \in DOMAIN ex |-> Content(ex[i].val, fuel - 1)]]
         [] v.k = "ptr" ->
              [k |-> v.k, t |-> v.t, nil |-> v.addr = 0,
               elems |-> IF v.addr = 0 THEN <<>> ELSE <<Content(Heap[v.addr], fuel - 1)>>]
         [] v.k = "map" ->
              [k |-> v.k, t |-> v.t, nil |-> v.addr = 0,
               entries |-> IF v.addr = 0 THEN {}
                           ELSE {<<Content(e.key, fuel - 1), Content(e.val, fuel - 1)>> :
                                   e \in {Heap[v.addr][i] : i \in DOMAIN Heap[v.addr]}}]
         [] OTHER -> v

(***************************************************************************)
(* C1.  The byte stream of a non-empty map does not depend on the order in *)
(* which the runtime yields its keys: two From calls on the same map       *)
(* write the same bytes and return the same digest.                        *)
(***************************************************************************)
C1_MapOrderIrrelevant ==
  (BothDone /\ Reliable /\ input[1] = input[2] /\ input[1].k = "map" /\ LenOf(input[1]) > 0
     /\ Succeeded(1) /\ Succeeded(2))
    => (SameStream /\ SameDigest)

(***************************************************************************)
(* C2.  Two values From succeeds on that differ in Kind, or within one     *)
(* Kind in concrete type (two integer types, or two non-empty sequences or *)
(* maps with different element types), write different byte streams.       *)
(* Kind is the kind after indirection, so the inputs are not pointers; nil  *)
(* values, functions and channels are left aside.                          *)
(***************************************************************************)
Plain(v) == v.k # "ptr" /\ ~IsNilValue(v) /\ ~IsUnsupported(v)

DiffersInKindOrType(a, b) ==
  /\ Plain(a) /\ Plain(b)
  /\ \/ a.k # b.k
     \/ /\ TypeOf(a) # TypeOf(b)
        /\ \/ a.k \in IntegerKinds
           \/ IsCollection(a) /\ LenOf(a) > 0 /\ LenOf(b) > 0

C2_TypeDiscrimination ==
  (Succeeded(1) /\ Succeeded(2) /\ DiffersInKindOrType(input[1], input[2]))
    => ~SameStream

(***************************************************************************)
(* C3.  Two sequences or maps without elements, allocated or nil, whose    *)
(* types differ write different byte streams.                              *)
(***************************************************************************)
C3_EmptyCollectionsDiffer ==
  (BothDone /\ IsCollection(input[1]) /\ IsCollection(input[2])
     /\ LenOf(input[1]) = 0 /\ LenOf(input[2]) = 0 /\ input[1].t # input[2].t)
    => ~SameStream

(***************************************************************************)
(* C4.  From on a reference to a non-nil value v that does not refer to    *)
(* itself and on which From succeeds also succeeds and writes the bytes    *)
(* From(v) writes, whatever the number of pointer layers.  Stated for the  *)
(* references whose pointers are no more than the limit of 100 on          *)
(* indirection resolution.                                                 *)
(***************************************************************************)
Transparent(v, w) ==
  (RefTo(w, v) /\ ~IsNilValue(v) /\ v \notin SelfReferential /\ Succeeded(1))
    => (Succeeded(2) /\ SameStream /\ SameDigest)

C4_IndirectionTransparent ==
  (BothDone /\ Reliable /\ input[2].k = "ptr" /\ input[2].t.n <= PtrLimit)
    => Transparent(input[1], input[2])

(***************************************************************************)
(* C5.  From terminates on every input, self-referential ones included:    *)
(* both calls return, a digest or an error, and no walkObject invocation   *)
(* runs deeper than the depth limit.  On a struct whose pointer field      *)
(* points back to it From returns a digest, the same for a second,         *)
(* separately built graph of the same shape.                               *)
(***************************************************************************)
IsNodeCycle(v) == v.k = "ptr" /\ v.addr # 0 /\ Heap[v.addr] = Struct(TNode, <<Field(TRUE, v)>>)

DepthBounded ==
  /\ Len(stack) <= DepthLimit + 2
  /\ \A i \in DOMAIN stack :
       /\ stack[i].depth = Len(stack) - i
       /\ stack[i].pc # "call" => stack[i].depth <= DepthLimit

DigestOrError ==
  \A c \in Calls : Done(c) => (Succeeded(c) \/ Failed(c))

CyclesHashed ==
  /\ \A c \in Calls : (Done(c) /\ IsNodeCycle(input[c])) => Succeeded(c)
  /\ (BothDone /\ IsNodeCycle(input[1]) /\ IsNodeCycle(input[2])) => SameDigest

C5_Terminates == [](DepthBounded /\ DigestOrError /\ CyclesHashed) /\ <>BothDone

(***************************************************************************)
(* C6.  On a chain of n pointers ending in a scalar From returns a digest  *)
(* when n is at most the limit of 100 and the depth error when n is more.  *)
(***************************************************************************)
C6_PointerDepthGuard ==
  (Done(1) /\ Reliable /\ IsChain(input[1])) =>
    IF input[1].t.n <= PtrLimit THEN Succeeded(1) ELSE Failed(1)

(***************************************************************************)
(* C7.  When the input, or an element or exported field of it, is a        *)
(* function or a channel, From returns an error and no digest.             *)
(***************************************************************************)
C7_UnsupportedRejected ==
  (Done(1) /\ ReachesUnsupported(input[1])) => Failed(1)

(***************************************************************************)
(* C8.  Once an invocation has returned an error, every step of the call   *)
(* is a frame returning that error wrapped, with nothing more written to   *)
(* the sink and no further invocation, until From returns a nil digest and *)
(* the error without calling Sum; From returns a digest only when no       *)
(* invocation returned an error.                                           *)
(***************************************************************************)
ErrorPropagates ==
  (cur # 0 /\ st.err # <<>>) =>
    /\ st'.out = st.out
    /\ st'.nwrites = st.nwrites
    /\ \/ /\ stack # <<>>
          /\ Head(stack).pc \in {"slice", "map", "struct"}
          /\ stack' = Tail(stack)
          /\ cur' = cur
          /\ Len(st'.err) = Len(st.err) + 1
          /\ SubSeq(st'.err, 2, Len(st'.err)) = st.err
       \/ /\ stack = <<>>
          /\ cur' = 0
          /\ result'[cur].done
          /\ result'[cur].hashNil
          /\ ~result'[cur].sum
          /\ result'[cur].err = <<"from">> \o st.err

AllOrNothing ==
  \A c \in Calls : Done(c) =>
    /\ result[c].hashNil <=> (result[c].err # <<>> \/ result[c].panic)
    /\ result[c].sum <=> ~result[c].hashNil
    /\ ~result[c].hashNil => result[c].hash = result[c].out

C8_AllOrNothing == [][ErrorPropagates]_vars /\ []AllOrNothing

\* An element of a slice returned an error while the slice had an element left.
C8_Witness ==
  /\ stack # <<>>
  /\ st.err # <<>>
  /\ Head(stack).pc = "slice"
  /\ Head(stack).i <= LenOf(Head(stack).r.rv)

(***************************************************************************)
(* C9.  The nil pointers of two distinct pointee types and the untyped nil *)
(* write three pairwise different byte streams, and a nil reference is     *)
(* never inserted into the visited set.                                    *)
(***************************************************************************)
C9_NilDiscrimination ==
  /\ 0 \notin st.visited
  /\ \A c \in Calls : Done(c) => 0 \notin result[c].visited
  /\ (BothDone /\ IsNilPtr(input[1]) /\ IsNilPtr(input[2]) /\ input[1].t # input[2].t)
       => ~SameStream
  /\ (BothDone /\ IsNilPtr(input[1]) /\ input[2] = Nil) => ~SameStream

(***************************************************************************)
(* C10.  Two values of the same type whose hashable content differs write  *)
(* different byte streams; values that refer to themselves or hold a       *)
(* function or a channel are left aside.                                   *)
(***************************************************************************)
Sound(v) == v \notin SelfReferential /\ ~ReachesUnsupported(v)

C10_ContentDiscrimination ==
  (Succeeded(1) /\ Succeeded(2) /\ Sound(input[1]) /\ Sound(input[2])
     /\ TypeOf(input[1]) = TypeOf(input[2])
     /\ Content(input[1], MaxContent) # Content(input[2], MaxContent))
    => ~SameStream

(***************************************************************************)
(* C11.  Two values that do not refer to themselves, of one type and with  *)
(* the same content, write the same byte stream, whether their equal       *)
(* sub-values are one shared instance or distinct ones: a slice holding    *)
(* one pointer twice is written as a slice holding two pointers to equal   *)
(* values is.                                                              *)
(***************************************************************************)
C11_IdentityIrrelevant ==
  (Succeeded(1) /\ Succeeded(2) /\ Reliable /\ Sound(input[1]) /\ Sound(input[2])
     /\ TypeOf(input[1]) = TypeOf(input[2])
     /\ Content(input[1], MaxContent) = Content(input[2], MaxContent))
    => SameStream

\* The longest path from v down into it, counting one for every pointer
\* dereferenced and one for every descent into an element, a map key or
\* value, or an exported field.  For values that do not refer to themselves.
\* A chain of n pointers and n nested slices have n steps.
IsNest(v) == v.k = "slice" /\ v.addr >= Addr.nest /\ v = Nest(v.addr - Addr.nest + 1)
Longest(S) == IF S = {} THEN 0 ELSE 1 + CHOOSE n \in S : \A m \in S : m <= n
RECURSIVE PathLength(_)
PathLength(v) ==
  CASE IsChain(v) -> v.t.n
    [] IsNest(v) -> v.addr - Addr.nest + 1
    [] v.k = "ptr" -> IF v.addr = 0 THEN 0 ELSE 1 + PathLength(Heap[v.addr])
    [] v.k \in {"slice", "array"} ->
         Longest({PathLength(Index(v, i)) : i \in 1 .. LenOf(v)})
    [] v.k = "map" ->
         IF v.addr = 0 THEN 0
         ELSE LET es == Heap[v.addr]
              IN Longest({PathLength(es[i].key) : i \in DOMAIN es}
                           \cup {PathLength(es[i].val) : i \in DOMAIN es})
    [] v.k = "struct" ->
         Longest({PathLength(v.fields[i].val) :
                    i \in {j \in DOMAIN v.fields : v.fields[j].exported}})
    [] OTHER -> 0

(***************************************************************************)
(* C12.  One counter bounds every nested step: a call whose input has a    *)
(* path of more than DepthLimit steps, pointer dereferences and descents   *)
(* into elements, keys, values and fields counted together, returns an     *)
(* error.                                                                  *)
(***************************************************************************)
C12_SharedDepthCounter ==
  \A c \in Calls :
    (Done(c) /\ Reliable /\ input[c] \notin SelfReferential
       /\ PathLength(input[c]) > DepthLimit)
      => Failed(c)

\* The call that returned last, whose sink st still holds, and whether that
\* sink rejected one of the call's writes.
LastCall == IF Done(2) THEN 2 ELSE 1
WriteRejected == sink # 0 /\ st.nwrites >= sink

(***************************************************************************)
(* C13.  A call during which the sink rejected a write, be it of a tag     *)
(* byte, of a type name or of the bytes of a scalar or a string, returns   *)
(* an error and no digest.                                                 *)
(***************************************************************************)
C13_SinkFailureAborts ==
  (cur = 0 /\ Done(LastCall) /\ ~result[LastCall].panic /\ WriteRejected)
    => Failed(LastCall)
==========================================================================
